---- MODULE Spec2Model ----
(***************************************************************************)
(* Vendor waterfall of the lead system: processLead (leadController.js),   *)
(* iteratePriceTiers and the price tier table (priceTierService.js), the   *)
(* two vendor adapters (itmediaService.js, leadsmarketService.js) and the  *)
(* persistence helpers (loggingService.js).                                *)
(*                                                                         *)
(* Prices are integers in cents: 250 dollars is 25000, 0.50 is 50.         *)
(* One behaviour is one processLead run, cut at its await points.          *)
(* The attempt fields duration_ms and response_payload (wall clock and the *)
(* serialised vendor payload) carry no control flow and are left out.      *)
(***************************************************************************)
EXTENDS Integers, Sequences, FiniteSets, TLC

\* ---------------------------------------------------------------- bounds
\* deviations of one run from the plain course: tier calls that come back as
\* anything but sold or rejected (error, price_reject) and database statements
\* that fail; the outcome of a counter-offer retry is free
MaxFaults == 1
\* a vendor deviates only on its first MaxFaultTier tiers and on its last tier
MaxFaultTier == 1

\* ------------------------------------------------------- absent values
\* null / undefined of a string-valued field
NONE == "null"
\* null / undefined of a number-valued field (every real price is >= 0)
NoPrice == -1

\* JavaScript truthiness of a number-valued field: null, undefined and 0 are falsy
Truthy(n) == n /= NoPrice /\ n /= 0

\* JavaScript `n || null` on a number-valued field
OrNull(n) == IF Truthy(n) THEN n ELSE NoPrice

\* a number-valued field of a vendor's response body is absent (NoPrice), the
\* JSON number 0 (Zero), an empty string (Empty), a text that is no number
\* (NotANumber), or a number n >= 0 standing for the numeric text "n" or, when
\* n > 0, the number n
Zero == -2
Empty == -3
NotANumber == -4

\* JavaScript truthiness of such a field: only a non-empty string or a
\* nonzero number is truthy (the text "0" is truthy)
WireTruthy(x) == x \notin {NoPrice, Zero, Empty}

\* parseFloat of such a field; NaN is written NoPrice: it is falsy, and
\* `NaN || null` is null
parseFloat(x) ==
    IF x = Zero THEN 0
    ELSE IF x \in {NoPrice, Empty, NotANumber} THEN NoPrice
    ELSE x

\* Math.floor on a price in cents
Floor(p) == (p \div 100) * 100

\* -------------------------------------------------------- price tiers
PRICE_TIERS == <<25000, 15000, 8000, 6000, 4000, 2000, 1000, 500, 200, 100, 50>>

getITMediaPriceTiers == PRICE_TIERS

\* Array.prototype.indexOf: first position holding v (0 when there is none)
IndexOf(s, v) ==
    IF \E i \in 1..Len(s) : s[i] = v
    THEN CHOOSE i \in 1..Len(s) : s[i] = v /\ \A j \in 1..(i - 1) : s[j] /= v
    ELSE 0

\* variant of the map callback: no cap at 230
LeadsMarketTier_NoCap(price) ==
    IF price < 100 THEN 0
    ELSE Floor(price)

\* variant of the map callback: rounds up to the next whole dollar
LeadsMarketTier_RoundsUp(price) ==
    IF price > 23000 THEN 23000
    ELSE Floor(price + 99)

\* the map callback of getLeadsMarketPriceTiers
LeadsMarketTier(price) ==
    IF price > 23000 THEN 23000
    ELSE IF price < 100 THEN 0
    ELSE Floor(price)

\* the filter callback of getLeadsMarketPriceTiers: keep first occurrences
RECURSIVE KeepFirst(_, _)
KeepFirst(self, index) ==
    IF index > Len(self) THEN <<>>
    ELSE (IF IndexOf(self, self[index]) = index THEN <<self[index]>> ELSE <<>>)
         \o KeepFirst(self, index + 1)

getLeadsMarketPriceTiers ==
    KeepFirst([i \in 1..Len(PRICE_TIERS) |-> LeadsMarketTier(PRICE_TIERS[i])], 1)

\* --------------------------------------------------- vendor responses
\* what the ITMedia endpoint can answer to one request
ITMediaResponses ==
    {[net |-> "ok", Status |-> "Sold", Price |-> 4000, LeadID |-> "IT-1",
      Redirect |-> NONE, PriceRejectAmount |-> NoPrice, Message |-> NONE],
     [net |-> "ok", Status |-> "Sold", Price |-> 12000, LeadID |-> "IT-2",
      Redirect |-> "https://itm/r", PriceRejectAmount |-> NoPrice, Message |-> NONE]}
    \cup
    [net : {"ok"}, Status : {"Rejected"}, Price : {NoPrice},
     LeadID : {NONE}, Redirect : {NONE},
     PriceRejectAmount : {NoPrice, NotANumber, 0, 3000, 15000},
     Message : {NONE}]
    \cup
    [net : {"ok"}, Status : {"Error"}, Price : {NoPrice},
     LeadID : {NONE}, Redirect : {NONE},
     PriceRejectAmount : {NoPrice}, Message : {NONE}]
    \cup
    [net : {"timeout"}, Status : {NONE}, Price : {NoPrice},
     LeadID : {NONE}, Redirect : {NONE},
     PriceRejectAmount : {NoPrice}, Message : {NONE}]

\* what the LeadsMarket endpoint can answer to one request
LeadsMarketResponses ==
    {[net |-> "ok", Result |-> "1", Price |-> NoPrice, LeadID |-> NONE,
      RedirectURL |-> NONE, Message |-> NONE],
     [net |-> "ok", Result |-> "1", Price |-> 7500, LeadID |-> "LM-1",
      RedirectURL |-> "https://lm/r", Message |-> NONE],
     [net |-> "ok", Result |-> "1", Price |-> 0, LeadID |-> "LM-2",
      RedirectURL |-> NONE, Message |-> NONE]}
    \cup
    [net : {"ok"}, Result : {"2", "4"}, Price : {NoPrice},
     LeadID : {NONE}, RedirectURL : {NONE}, Message : {NONE}]
    \cup
    [net : {"timeout"}, Result : {NONE}, Price : {NoPrice},
     LeadID : {NONE}, RedirectURL : {NONE}, Message : {NONE}]

\* ------------------------------------------------------------ adapters
Outcome(st, pr, id, url, sugg, msg) ==
    [status |-> st, price |-> pr, vendorLeadId |-> id, redirectUrl |-> url,
     suggestedPrice |-> sugg, message |-> msg]

\* `result.Message || fallback`
OrText(m, fallback) == IF m /= NONE THEN m ELSE fallback

\* variant: a counter-offer is dropped, every rejection is a plain rejection
postToITMedia_DropsCounterOffer(minPrice, resp) ==
    IF resp.net /= "ok"
    THEN Outcome("error", NoPrice, NONE, NONE, NoPrice, resp.net)
    ELSE IF resp.Status = "Sold"
    THEN Outcome("sold", parseFloat(resp.Price), resp.LeadID, resp.Redirect,
                 NoPrice, NONE)
    ELSE IF resp.Status = "Rejected"
    THEN Outcome("rejected", NoPrice, NONE, NONE, NoPrice,
                 OrText(resp.Message, "Lead rejected"))
    ELSE Outcome("error", NoPrice, NONE, NONE, NoPrice,
                 OrText(resp.Message, "ITMedia API error"))

postToITMedia(minPrice, resp) ==
    IF resp.net /= "ok"
    THEN Outcome("error", NoPrice, NONE, NONE, NoPrice, resp.net)
    ELSE IF resp.Status = "Sold"
    THEN Outcome("sold", parseFloat(resp.Price), resp.LeadID, resp.Redirect,
                 NoPrice, NONE)
    ELSE IF resp.Status = "Rejected" /\ WireTruthy(resp.PriceRejectAmount)
    THEN Outcome("price_reject", NoPrice, NONE, NONE,
                 parseFloat(resp.PriceRejectAmount),
                 OrText(resp.Message, "Price rejected, retry suggested"))
    ELSE IF resp.Status = "Rejected"
    THEN Outcome("rejected", NoPrice, NONE, NONE, NoPrice,
                 OrText(resp.Message, "Lead rejected"))
    ELSE IF resp.Status = "Error"
    THEN Outcome("error", NoPrice, NONE, NONE, NoPrice,
                 OrText(resp.Message, "ITMedia API error"))
    ELSE Outcome("error", NoPrice, NONE, NONE, NoPrice,
                 "Unknown response from ITMedia")

\* the integer price LeadsMarket is asked for
IntPrice(minPrice) ==
    LET f == Floor(minPrice)
    IN  IF f > 23000 THEN 23000 ELSE IF f < 0 THEN 0 ELSE f

\* variant: every result code other than 1 is taken for a rejection
postToLeadsMarket_UnknownIsRejected(minPrice, resp) ==
    IF resp.net /= "ok"
    THEN Outcome("error", NoPrice, NONE, NONE, NoPrice, resp.net)
    ELSE IF resp.Result = "1"
    THEN Outcome("sold",
                 parseFloat(IF WireTruthy(resp.Price) THEN resp.Price
                            ELSE IntPrice(minPrice)),
                 resp.LeadID, resp.RedirectURL, NoPrice, NONE)
    ELSE Outcome("rejected", NoPrice, NONE, NONE, NoPrice,
                 OrText(resp.Message, "Lead rejected by LeadsMarket"))

\* variant: a refusal comes back as a counter-offer at half the price
postToLeadsMarket_CounterOffers(minPrice, resp) ==
    IF resp.net /= "ok"
    THEN Outcome("error", NoPrice, NONE, NONE, NoPrice, resp.net)
    ELSE IF resp.Result = "1"
    THEN Outcome("sold",
                 parseFloat(IF WireTruthy(resp.Price) THEN resp.Price
                            ELSE IntPrice(minPrice)),
                 resp.LeadID, resp.RedirectURL, NoPrice, NONE)
    ELSE IF resp.Result = "2"
    THEN Outcome("price_reject", NoPrice, NONE, NONE, Floor(minPrice \div 2) + 100,
                 OrText(resp.Message, "Lead rejected by LeadsMarket"))
    ELSE Outcome("error", NoPrice, NONE, NONE, NoPrice,
                 OrText(resp.Message, "Unknown response from LeadsMarket"))

postToLeadsMarket(minPrice, resp) ==
    IF resp.net /= "ok"
    THEN Outcome("error", NoPrice, NONE, NONE, NoPrice, resp.net)
    ELSE IF resp.Result = "1"
    THEN Outcome("sold",
                 parseFloat(IF WireTruthy(resp.Price) THEN resp.Price
                            ELSE IntPrice(minPrice)),
                 resp.LeadID, resp.RedirectURL, NoPrice, NONE)
    ELSE IF resp.Result = "2"
    THEN Outcome("rejected", NoPrice, NONE, NONE, NoPrice,
                 OrText(resp.Message, "Lead rejected by LeadsMarket"))
    ELSE Outcome("error", NoPrice, NONE, NONE, NoPrice,
                 OrText(resp.Message, "Unknown response from LeadsMarket"))

\* ------------------------------------------------- iteratePriceTiers
\* the Bid Attempt recorded for one adapter call
Attempt(vendorName, price, result, attemptOrder) ==
    [vendor |-> vendorName,
     min_price_sent |-> price,
     status |-> result.status,
     price |-> OrNull(result.price),
     vendor_lead_id |-> result.vendorLeadId,
     redirect_url |-> result.redirectUrl,
     attempt_order |-> attemptOrder,
     error_message |-> result.message]

\* variant: the sold return counts like the return after the loop
SoldResult_CountsLikeLoopEnd(vendorName, result, attempts, attemptOrder) ==
    [finalStatus |-> "sold",
     soldPrice |-> result.price,
     vendorLeadId |-> result.vendorLeadId,
     redirectUrl |-> result.redirectUrl,
     vendor |-> vendorName,
     attempts |-> attempts,
     totalAttempts |-> attemptOrder - 1]

\* the value returned when a call is sold (on a tier or on the retry)
SoldResult(vendorName, result, attempts, attemptOrder) ==
    [finalStatus |-> "sold",
     soldPrice |-> result.price,
     vendorLeadId |-> result.vendorLeadId,
     redirectUrl |-> result.redirectUrl,
     vendor |-> vendorName,
     attempts |-> attempts,
     totalAttempts |-> attemptOrder]

\* the value returned after the loop
\* variant: the count of the loop's end is the counter itself
RejectedResult_CountsNextAttempt(vendorName, attempts, attemptOrder) ==
    [finalStatus |-> "rejected",
     soldPrice |-> NoPrice,
     vendorLeadId |-> NONE,
     redirectUrl |-> NONE,
     vendor |-> vendorName,
     attempts |-> attempts,
     totalAttempts |-> attemptOrder]

RejectedResult(vendorName, attempts, attemptOrder) ==
    [finalStatus |-> "rejected",
     soldPrice |-> NoPrice,
     vendorLeadId |-> NONE,
     redirectUrl |-> NONE,
     vendor |-> vendorName,
     attempts |-> attempts,
     totalAttempts |-> attemptOrder - 1]

\* the counter-offer branch is taken
\* variant: every price_reject is retried, whatever the suggested price
ShouldRetry_AnyCounterOffer(result) == result.status = "price_reject"

ShouldRetry(result) ==
    result.status = "price_reject" /\ Truthy(result.suggestedPrice)

\* variant: no `break`, the loop goes on to the next tier after the retry
RetryEndsIteration_NoBreak == FALSE

\* `break` after a retry that did not sell
RetryEndsIteration == TRUE

\* no iteratePriceTiers call has returned yet
NoIterResult ==
    [finalStatus |-> "none", soldPrice |-> NoPrice, vendorLeadId |-> NONE,
     redirectUrl |-> NONE, vendor |-> NONE, attempts |-> <<>>,
     totalAttempts |-> 0]

\* --------------------------------------------------------- persistence
\* the row savePostAttempt inserts
PostAttemptRow(leadId, attempt) ==
    [lead_id |-> leadId,
     vendor |-> attempt.vendor,
     min_price_sent |-> attempt.min_price_sent,
     status |-> attempt.status,
     price |-> OrNull(attempt.price),
     vendor_lead_id |-> attempt.vendor_lead_id,
     error_message |-> attempt.error_message,
     redirect_url |-> attempt.redirect_url,
     attempt_order |-> attempt.attempt_order]

\* the leads table holds no row of this run yet
NoLeadRow ==
    [final_status |-> "none", sold_price |-> NoPrice, sold_vendor |-> NONE,
     redirect_url |-> NONE]

\* the row saveLeadToDatabase inserts (status columns only)
InsertedLeadRow ==
    [final_status |-> "pending", sold_price |-> NoPrice, sold_vendor |-> NONE,
     redirect_url |-> NONE]

\* the UPDATE updateLeadStatus issues: null arguments leave their column alone
updateLeadStatus(row, status, soldPrice, soldVendor, redirectUrl) ==
    [final_status |-> status,
     sold_price |-> IF soldPrice /= NoPrice THEN soldPrice ELSE row.sold_price,
     sold_vendor |-> IF soldVendor /= NONE THEN soldVendor ELSE row.sold_vendor,
     redirect_url |-> IF redirectUrl /= NONE THEN redirectUrl ELSE row.redirect_url]

\* --------------------------------------------------------- processLead
\* ids the leads table can hand out
LeadIds == {7}

\* variant: the ITMedia sale is not recognised
ITMediaSold_Never(itmediaResult) == FALSE

\* `if (itmediaResult.finalStatus === "sold")`
ITMediaSold(itmediaResult) == itmediaResult.finalStatus = "sold"

\* variant: the LeadsMarket sale is not recognised
LeadsMarketSold_Never(leadsmarketResult) == FALSE

\* `if (leadsmarketResult.finalStatus === "sold")`
LeadsMarketSold(leadsmarketResult) == leadsmarketResult.finalStatus = "sold"

\* variant: the catch block updates the status without looking at leadId
HasLeadId_Unchecked(leadId) == TRUE

\* `if (leadId)` of the catch block
HasLeadId(leadId) == leadId /= 0

\* processLead has not returned yet
NoResponse ==
    [status |-> "none", lead_id |-> 0, vendor |-> NONE, price |-> NoPrice,
     vendor_lead_id |-> NONE, redirect_url |-> NONE, total_attempts |-> NoPrice,
     message |-> NONE]

ITMediaSoldResponse(leadId, itmediaResult) ==
    [status |-> "sold", lead_id |-> leadId, vendor |-> "ITMedia",
     price |-> itmediaResult.soldPrice,
     vendor_lead_id |-> itmediaResult.vendorLeadId,
     redirect_url |-> itmediaResult.redirectUrl,
     total_attempts |-> itmediaResult.totalAttempts,
     message |-> NONE]

LeadsMarketSoldResponse(leadId, itmediaResult, leadsmarketResult) ==
    [status |-> "sold", lead_id |-> leadId, vendor |-> "LeadsMarket",
     price |-> leadsmarketResult.soldPrice,
     vendor_lead_id |-> leadsmarketResult.vendorLeadId,
     redirect_url |-> leadsmarketResult.redirectUrl,
     total_attempts |-> itmediaResult.totalAttempts + leadsmarketResult.totalAttempts,
     message |-> NONE]

RejectedResponse(leadId, itmediaResult, leadsmarketResult) ==
    [status |-> "rejected", lead_id |-> leadId, vendor |-> NONE,
     price |-> NoPrice, vendor_lead_id |-> NONE, redirect_url |-> NONE,
     total_attempts |-> itmediaResult.totalAttempts + leadsmarketResult.totalAttempts,
     message |-> "No lenders matched your application at this time"]

ErrorResponse(leadId) ==
    [status |-> "error", lead_id |-> leadId, vendor |-> NONE,
     price |-> NoPrice, vendor_lead_id |-> NONE, redirect_url |-> NONE,
     total_attempts |-> NoPrice,
     message |-> "An error occurred while processing your application"]

\* no second call of processLead is in progress
NoRun == [pc |-> "absent", leadId |-> 0]

\* no adapter call is looked at on its own
NoWire == [stage |-> "none"]

\* no request body is being validated
NoForm == [stage |-> "none"]

\* ---------------------------------------------------------------- state
VARIABLES
    pc,                 \* the await point the run is suspended at
    leadId,             \* processLead: leadId (0 is null)
    vendorName,         \* iteratePriceTiers: vendorName
    priceTiers,         \* iteratePriceTiers: priceTiers
    tierIdx,            \* iteratePriceTiers: position of the for-of loop
    attemptOrder,       \* iteratePriceTiers: attemptOrder
    attempts,           \* iteratePriceTiers: attempts
    suggested,          \* iteratePriceTiers: result.suggestedPrice of the pending retry
    itmediaResult,      \* processLead: itmediaResult
    leadsmarketResult,  \* processLead: leadsmarketResult
    batchIdx,           \* savePostAttemptsBatch: position of the for-of loop
    leadRow,            \* leads table: the row of this run
    postAttempts,       \* post_attempts table: the rows of this run, in insert order
    response,           \* the value processLead returned
    calls,              \* history: the adapter calls made, in order, each with the
                        \* tier it was made for (0 for the retry) and its outcome
    handed,             \* history: the attempts passed to savePostAttempt, in order
    statusWrites,       \* history: the status updates issued, in order
    faults,             \* faults spent
    other,              \* the frame of a second processLead call while it is
                        \* suspended at an await (NoRun when there is none)
    form,               \* POST /api/lead: the request body and how far the
                        \* route has got with it (NoForm when not modelled)
    wire                \* one adapter call on its own: the vendor, the price,
                        \* the requests sent and what came back (NoWire when
                        \* not modelled)

vars ==
    <<pc, leadId, vendorName, priceTiers, tierIdx, attemptOrder, attempts,
      suggested, itmediaResult, leadsmarketResult, batchIdx, leadRow,
      postAttempts, response, calls, handed, statusWrites, faults, other, form, wire>>

\* what a step of one processLead call never touches
auxVars == <<other, form, wire>>

iterVars == <<vendorName, priceTiers, tierIdx, attemptOrder, attempts, suggested>>

Init ==
    /\ pc = "saveLead"
    /\ leadId = 0
    /\ vendorName = NONE
    /\ priceTiers = <<>>
    /\ tierIdx = 0
    /\ attemptOrder = 0
    /\ attempts = <<>>
    /\ suggested = NoPrice
    /\ itmediaResult = NoIterResult
    /\ leadsmarketResult = NoIterResult
    /\ batchIdx = 0
    /\ leadRow = NoLeadRow
    /\ postAttempts = <<>>
    /\ response = NoResponse
    /\ calls = <<>>
    /\ handed = <<>>
    /\ statusWrites = <<>>
    /\ faults = 0
    /\ other = NoRun
    /\ form = NoForm
    /\ wire = NoWire

\* the ids the leads table can hand out next: the auto-increment key has
\* moved on when the other call has inserted its lead
FreeLeadIds == IF other.leadId = 0 THEN LeadIds ELSE {other.leadId + 1}

\* a database statement succeeds, or fails while failures are left to spend
DbOutcome(ok) ==
    /\ ok \in BOOLEAN
    /\ ~ok => faults < MaxFaults
    /\ faults' = IF ok THEN faults ELSE faults + 1

\* variant: the loop starts at the second tier of the list
StartIterate_SkipsFirstTier(name, tiers) ==
    /\ vendorName' = name
    /\ priceTiers' = tiers
    /\ tierIdx' = 2
    /\ attemptOrder' = 1
    /\ attempts' = <<>>
    /\ suggested' = NoPrice
    /\ pc' = "post"

\* iteratePriceTiers is entered and runs up to its first adapter call
\* variant: attemptOrder is kept across the two iteratePriceTiers calls
StartIterate_KeepsCounter(name, tiers) ==
    /\ vendorName' = name
    /\ priceTiers' = tiers
    /\ tierIdx' = 1
    /\ attemptOrder' = IF attemptOrder = 0 THEN 1 ELSE attemptOrder
    /\ attempts' = <<>>
    /\ suggested' = NoPrice
    /\ pc' = "post"

StartIterate(name, tiers) ==
    /\ vendorName' = name
    /\ priceTiers' = tiers
    /\ tierIdx' = 1
    /\ attemptOrder' = 1
    /\ attempts' = <<>>
    /\ suggested' = NoPrice
    /\ pc' = "post"

\* iteratePriceTiers returns res; processLead goes on to savePostAttemptsBatch
ReturnIterate(res) ==
    /\ IF vendorName = "ITMedia"
       THEN itmediaResult' = res /\ UNCHANGED leadsmarketResult
       ELSE leadsmarketResult' = res /\ UNCHANGED itmediaResult
    /\ batchIdx' = 1
    /\ pc' = "batch"

\* the adapter iteratePriceTiers was given for this vendor
Responses(name) ==
    IF name = "ITMedia" THEN ITMediaResponses ELSE LeadsMarketResponses

postFunction(name, price, resp) ==
    IF name = "ITMedia" THEN postToITMedia(price, resp)
    ELSE postToLeadsMarket(price, resp)

\* a tier outcome that neither sells nor is a plain rejection
IsFault(result) == result.status \notin {"sold", "rejected"}

\* a deviation may happen on this pass of the loop
MayDeviate == tierIdx <= MaxFaultTier \/ tierIdx = Len(priceTiers)

\* variant: saveLeadToDatabase swallows the failure of the insert, as
\* savePostAttempt and updateLeadStatus do, and the run goes on without an id
SaveLead_SwallowsFailure ==
    /\ pc = "saveLead"
    /\ \E ok \in BOOLEAN :
        /\ DbOutcome(ok)
        /\ IF ok
           THEN /\ \E id \in FreeLeadIds : leadId' = id
                /\ leadRow' = InsertedLeadRow
           ELSE UNCHANGED <<leadId, leadRow>>
        /\ StartIterate("ITMedia", getITMediaPriceTiers)
    /\ UNCHANGED auxVars
    /\ UNCHANGED <<itmediaResult, leadsmarketResult, batchIdx, postAttempts,
                   response, calls, handed, statusWrites>>

\* STEP 1: saveLeadToDatabase resolves or throws
SaveLead ==
    /\ pc = "saveLead"
    /\ \E ok \in BOOLEAN :
        /\ DbOutcome(ok)
        /\ IF ok
           THEN /\ \E id \in FreeLeadIds : leadId' = id
                /\ leadRow' = InsertedLeadRow
                /\ StartIterate("ITMedia", getITMediaPriceTiers)
                /\ UNCHANGED response
           ELSE /\ UNCHANGED <<leadId, leadRow, iterVars>>
                /\ IF HasLeadId(leadId)
                   THEN pc' = "statusError" /\ UNCHANGED response
                   ELSE pc' = "done" /\ response' = ErrorResponse(leadId)
    /\ UNCHANGED auxVars
    /\ UNCHANGED <<itmediaResult, leadsmarketResult, batchIdx, postAttempts,
                   calls, handed, statusWrites>>

\* variant of the loop body: an error outcome leaves the loop
PostTier_ErrorEndsLoop ==
    /\ pc = "post"
    /\ tierIdx <= Len(priceTiers)
    /\ \E resp \in Responses(vendorName) :
        LET price == priceTiers[tierIdx]
            result == postFunction(vendorName, price, resp)
            attempt == Attempt(vendorName, price, result, attemptOrder)
            pushed == Append(attempts, attempt)
        IN  /\ IsFault(result) => (faults < MaxFaults /\ MayDeviate)
            /\ faults' = IF IsFault(result) THEN faults + 1 ELSE faults
            /\ attempts' = pushed
            /\ calls' = Append(calls, [vendor |-> vendorName, price |-> price,
                                       tier |-> tierIdx, result |-> result])
            /\ IF result.status = "sold"
               THEN /\ ReturnIterate(SoldResult(vendorName, result, pushed, attemptOrder))
                    /\ UNCHANGED <<tierIdx, attemptOrder, suggested>>
               ELSE IF ShouldRetry(result)
               THEN /\ attemptOrder' = attemptOrder + 1
                    /\ suggested' = result.suggestedPrice
                    /\ pc' = "retry"
                    /\ UNCHANGED <<tierIdx, itmediaResult, leadsmarketResult, batchIdx>>
               ELSE /\ attemptOrder' = attemptOrder + 1
                    /\ tierIdx' = tierIdx + 1
                    /\ UNCHANGED suggested
                    /\ IF tierIdx < Len(priceTiers) /\ result.status /= "error"
                       THEN /\ pc' = "post"
                            /\ UNCHANGED <<itmediaResult, leadsmarketResult, batchIdx>>
                       ELSE ReturnIterate(RejectedResult(vendorName, pushed,
                                                         attemptOrder + 1))
    /\ UNCHANGED auxVars
    /\ UNCHANGED <<leadId, vendorName, priceTiers, leadRow, postAttempts,
                   response, handed, statusWrites>>

\* one pass of the for-of loop: the adapter call on a tier resolves
PostTier ==
    /\ pc = "post"
    /\ tierIdx <= Len(priceTiers)
    /\ \E resp \in Responses(vendorName) :
        LET price == priceTiers[tierIdx]
            result == postFunction(vendorName, price, resp)
            attempt == Attempt(vendorName, price, result, attemptOrder)
            pushed == Append(attempts, attempt)
        IN  /\ IsFault(result) => (faults < MaxFaults /\ MayDeviate)
            /\ faults' = IF IsFault(result) THEN faults + 1 ELSE faults
            /\ attempts' = pushed
            /\ calls' = Append(calls, [vendor |-> vendorName, price |-> price,
                                       tier |-> tierIdx, result |-> result])
            /\ IF result.status = "sold"
               THEN /\ ReturnIterate(SoldResult(vendorName, result, pushed, attemptOrder))
                    /\ UNCHANGED <<tierIdx, attemptOrder, suggested>>
               ELSE IF ShouldRetry(result)
               THEN /\ attemptOrder' = attemptOrder + 1
                    /\ suggested' = result.suggestedPrice
                    /\ pc' = "retry"
                    /\ UNCHANGED <<tierIdx, itmediaResult, leadsmarketResult, batchIdx>>
               ELSE /\ attemptOrder' = attemptOrder + 1
                    /\ tierIdx' = tierIdx + 1
                    /\ UNCHANGED suggested
                    /\ IF tierIdx < Len(priceTiers)
                       THEN /\ pc' = "post"
                            /\ UNCHANGED <<itmediaResult, leadsmarketResult, batchIdx>>
                       ELSE ReturnIterate(RejectedResult(vendorName, pushed,
                                                         attemptOrder + 1))
    /\ UNCHANGED auxVars
    /\ UNCHANGED <<leadId, vendorName, priceTiers, leadRow, postAttempts,
                   response, handed, statusWrites>>

\* variant of the retry: a retry answered by a further counter-offer is
\* retried again at the newly suggested price
PostRetry_Chains ==
    /\ pc = "retry"
    /\ \E resp \in Responses(vendorName) :
        LET retryResult == postFunction(vendorName, suggested, resp)
            retryAttempt == Attempt(vendorName, suggested, retryResult, attemptOrder)
            pushed == Append(attempts, retryAttempt)
        IN  /\ attempts' = pushed
            /\ calls' = Append(calls, [vendor |-> vendorName, price |-> suggested,
                                       tier |-> 0, result |-> retryResult])
            /\ IF retryResult.status = "sold"
               THEN /\ ReturnIterate(SoldResult(vendorName, retryResult, pushed,
                                                attemptOrder))
                    /\ suggested' = NoPrice
                    /\ UNCHANGED <<tierIdx, attemptOrder>>
               ELSE IF ShouldRetry(retryResult) /\ Len(pushed) < 4
               THEN /\ attemptOrder' = attemptOrder + 1
                    /\ suggested' = retryResult.suggestedPrice
                    /\ UNCHANGED <<pc, tierIdx, itmediaResult, leadsmarketResult,
                                   batchIdx>>
               ELSE /\ ReturnIterate(RejectedResult(vendorName, pushed, attemptOrder))
                    /\ suggested' = NoPrice
                    /\ UNCHANGED <<tierIdx, attemptOrder>>
    /\ UNCHANGED auxVars
    /\ UNCHANGED <<leadId, vendorName, priceTiers, leadRow, postAttempts,
                   response, handed, statusWrites, faults>>

\* the counter-offer retry call resolves
PostRetry ==
    /\ pc = "retry"
    /\ \E resp \in Responses(vendorName) :
        LET retryResult == postFunction(vendorName, suggested, resp)
            retryAttempt == Attempt(vendorName, suggested, retryResult, attemptOrder)
            pushed == Append(attempts, retryAttempt)
        IN  /\ attempts' = pushed
            /\ calls' = Append(calls, [vendor |-> vendorName, price |-> suggested,
                                       tier |-> 0, result |-> retryResult])
            /\ IF retryResult.status = "sold"
               THEN /\ ReturnIterate(SoldResult(vendorName, retryResult, pushed,
                                                attemptOrder))
                    /\ UNCHANGED <<tierIdx, attemptOrder>>
               ELSE IF RetryEndsIteration
               THEN /\ ReturnIterate(RejectedResult(vendorName, pushed, attemptOrder))
                    /\ UNCHANGED <<tierIdx, attemptOrder>>
               ELSE /\ attemptOrder' = attemptOrder + 1
                    /\ tierIdx' = tierIdx + 1
                    /\ IF tierIdx < Len(priceTiers)
                       THEN /\ pc' = "post"
                            /\ UNCHANGED <<itmediaResult, leadsmarketResult, batchIdx>>
                       ELSE ReturnIterate(RejectedResult(vendorName, pushed,
                                                         attemptOrder + 1))
    /\ suggested' = NoPrice
    /\ UNCHANGED auxVars
    /\ UNCHANGED <<leadId, vendorName, priceTiers, leadRow, postAttempts,
                   response, handed, statusWrites, faults>>

\* the iteratePriceTiers result whose attempts are being saved
BatchResult == IF vendorName = "ITMedia" THEN itmediaResult ELSE leadsmarketResult

\* processLead after a savePostAttemptsBatch call has resolved
AfterBatch ==
    IF vendorName = "ITMedia"
    THEN IF ITMediaSold(itmediaResult)
         THEN pc' = "statusSoldA" /\ UNCHANGED iterVars
         ELSE StartIterate("LeadsMarket", getLeadsMarketPriceTiers)
    ELSE /\ UNCHANGED iterVars
         /\ IF LeadsMarketSold(leadsmarketResult)
            THEN pc' = "statusSoldB"
            ELSE pc' = "statusRejected"

\* variant of savePostAttemptsBatch: the batch is given up at the first insert
\* that fails
WriteAttempt_StopsOnFailure ==
    /\ pc = "batch"
    /\ batchIdx <= Len(BatchResult.attempts)
    /\ \E ok \in BOOLEAN :
        LET attempt == BatchResult.attempts[batchIdx]
        IN  /\ DbOutcome(ok)
            /\ handed' = Append(handed, attempt)
            /\ postAttempts' = IF ok
                               THEN Append(postAttempts, PostAttemptRow(leadId, attempt))
                               ELSE postAttempts
            /\ batchIdx' = batchIdx + 1
            /\ IF ok /\ batchIdx < Len(BatchResult.attempts)
               THEN UNCHANGED <<pc, iterVars>>
               ELSE AfterBatch
    /\ UNCHANGED auxVars
    /\ UNCHANGED <<leadId, itmediaResult, leadsmarketResult, leadRow, response,
                   calls, statusWrites>>

\* savePostAttempt without its catch: a failed insert throws out of
\* savePostAttemptsBatch into the catch block of processLead
WriteAttempt_Rethrows ==
    /\ pc = "batch"
    /\ batchIdx <= Len(BatchResult.attempts)
    /\ \E ok \in BOOLEAN :
        LET attempt == BatchResult.attempts[batchIdx]
        IN  /\ DbOutcome(ok)
            /\ handed' = Append(handed, attempt)
            /\ postAttempts' = IF ok
                               THEN Append(postAttempts, PostAttemptRow(leadId, attempt))
                               ELSE postAttempts
            /\ batchIdx' = batchIdx + 1
            /\ IF ~ok
               THEN pc' = "statusError" /\ UNCHANGED iterVars
               ELSE IF batchIdx < Len(BatchResult.attempts)
                    THEN UNCHANGED <<pc, iterVars>>
                    ELSE AfterBatch
    /\ UNCHANGED auxVars
    /\ UNCHANGED <<leadId, itmediaResult, leadsmarketResult, leadRow, response,
                   calls, statusWrites>>

\* one pass of savePostAttemptsBatch: savePostAttempt inserts a row, or swallows
\* the failure of the insert
WriteAttempt ==
    /\ pc = "batch"
    /\ batchIdx <= Len(BatchResult.attempts)
    /\ \E ok \in BOOLEAN :
        LET attempt == BatchResult.attempts[batchIdx]
        IN  /\ DbOutcome(ok)
            /\ handed' = Append(handed, attempt)
            /\ postAttempts' = IF ok
                               THEN Append(postAttempts, PostAttemptRow(leadId, attempt))
                               ELSE postAttempts
    /\ batchIdx' = batchIdx + 1
    /\ IF batchIdx < Len(BatchResult.attempts)
       THEN UNCHANGED <<pc, iterVars>>
       ELSE AfterBatch
    /\ UNCHANGED auxVars
    /\ UNCHANGED <<leadId, itmediaResult, leadsmarketResult, leadRow, response,
                   calls, statusWrites>>

\* the arguments of the updateLeadStatus call the run is suspended at
StatusArgs ==
    IF pc = "statusSoldA"
    THEN [status |-> "sold", soldPrice |-> itmediaResult.soldPrice,
          soldVendor |-> "ITMedia", redirectUrl |-> itmediaResult.redirectUrl]
    ELSE IF pc = "statusSoldB"
    THEN [status |-> "sold", soldPrice |-> leadsmarketResult.soldPrice,
          soldVendor |-> "LeadsMarket", redirectUrl |-> leadsmarketResult.redirectUrl]
    ELSE IF pc = "statusRejected"
    THEN [status |-> "rejected", soldPrice |-> NoPrice, soldVendor |-> NONE,
          redirectUrl |-> NONE]
    ELSE [status |-> "error", soldPrice |-> NoPrice, soldVendor |-> NONE,
          redirectUrl |-> NONE]

\* what processLead returns after that updateLeadStatus call
StatusResponse ==
    IF pc = "statusSoldA" THEN ITMediaSoldResponse(leadId, itmediaResult)
    ELSE IF pc = "statusSoldB"
    THEN LeadsMarketSoldResponse(leadId, itmediaResult, leadsmarketResult)
    ELSE IF pc = "statusRejected"
    THEN RejectedResponse(leadId, itmediaResult, leadsmarketResult)
    ELSE ErrorResponse(leadId)

\* updateLeadStatus without its catch: a failed update throws into processLead,
\* whose catch block tries the update once more and, when that fails too,
\* lets the exception out to the caller
UpdateStatus_Rethrows ==
    /\ pc \in {"statusSoldA", "statusSoldB", "statusRejected", "statusError"}
    /\ \E ok \in BOOLEAN :
        /\ DbOutcome(ok)
        /\ statusWrites' = Append(statusWrites,
                                  [lead_id |-> leadId, status |-> StatusArgs.status,
                                   ok |-> ok])
        /\ leadRow' = IF ok
                      THEN updateLeadStatus(leadRow, StatusArgs.status,
                                            StatusArgs.soldPrice, StatusArgs.soldVendor,
                                            StatusArgs.redirectUrl)
                      ELSE leadRow
        /\ IF ok
           THEN response' = StatusResponse /\ pc' = "done"
           ELSE IF pc = "statusError"
                THEN response' = [NoResponse EXCEPT !.status = "unhandled"] /\ pc' = "done"
                ELSE UNCHANGED response /\ pc' = "statusError"
    /\ UNCHANGED auxVars
    /\ UNCHANGED <<leadId, iterVars, itmediaResult, leadsmarketResult, batchIdx,
                   postAttempts, calls, handed>>

\* updateLeadStatus updates the row, or swallows the failure of the update;
\* processLead then returns
UpdateStatus ==
    /\ pc \in {"statusSoldA", "statusSoldB", "statusRejected", "statusError"}
    /\ \E ok \in BOOLEAN :
        /\ DbOutcome(ok)
        /\ statusWrites' = Append(statusWrites,
                                  [lead_id |-> leadId, status |-> StatusArgs.status,
                                   ok |-> ok])
        /\ leadRow' = IF ok
                      THEN updateLeadStatus(leadRow, StatusArgs.status,
                                            StatusArgs.soldPrice, StatusArgs.soldVendor,
                                            StatusArgs.redirectUrl)
                      ELSE leadRow
    /\ response' = StatusResponse
    /\ pc' = "done"
    /\ UNCHANGED auxVars
    /\ UNCHANGED <<leadId, iterVars, itmediaResult, leadsmarketResult, batchIdx,
                   postAttempts, calls, handed>>

Next ==
    \/ SaveLead
    \/ PostTier
    \/ PostRetry
    \/ WriteAttempt
    \/ UpdateStatus

Spec == Init /\ [][Next]_vars

\* ------------------------------------------- a post function that throws
\* what calls records for an adapter call that threw instead of returning
Threw == Outcome("threw", NoPrice, NONE, NONE, NoPrice, "exception")

\* the awaited postFunction call throws: the exception leaves
\* iteratePriceTiers and lands in the catch block of processLead, which runs
\* up to its updateLeadStatus call
\* variant: iteratePriceTiers hands the attempts made so far to
\* savePostAttemptsBatch before the exception goes on to processLead
PostThrows_SavesAttemptsFirst ==
    /\ pc \in {"post", "retry"}
    /\ calls' = Append(calls,
                       [vendor |-> vendorName,
                        price |-> IF pc = "post" THEN priceTiers[tierIdx] ELSE suggested,
                        tier |-> IF pc = "post" THEN tierIdx ELSE 0,
                        result |-> Threw])
    /\ handed' = handed \o attempts
    /\ postAttempts' = postAttempts \o
                       [i \in 1..Len(attempts) |-> PostAttemptRow(leadId, attempts[i])]
    /\ IF HasLeadId(leadId)
       THEN pc' = "statusError" /\ UNCHANGED response
       ELSE pc' = "done" /\ response' = ErrorResponse(leadId)
    /\ UNCHANGED auxVars
    /\ UNCHANGED <<leadId, iterVars, itmediaResult, leadsmarketResult, batchIdx,
                   leadRow, statusWrites, faults>>

PostThrows ==
    /\ pc \in {"post", "retry"}
    /\ calls' = Append(calls,
                       [vendor |-> vendorName,
                        price |-> IF pc = "post" THEN priceTiers[tierIdx] ELSE suggested,
                        tier |-> IF pc = "post" THEN tierIdx ELSE 0,
                        result |-> Threw])
    /\ IF HasLeadId(leadId)
       THEN pc' = "statusError" /\ UNCHANGED response
       ELSE pc' = "done" /\ response' = ErrorResponse(leadId)
    /\ UNCHANGED auxVars
    /\ UNCHANGED <<leadId, iterVars, itmediaResult, leadsmarketResult, batchIdx,
                   leadRow, postAttempts, handed, statusWrites, faults>>

NextThrow ==
    \/ SaveLead
    \/ PostTier
    \/ PostRetry
    \/ WriteAttempt
    \/ UpdateStatus
    \/ PostThrows

SpecThrow == Init /\ [][NextThrow]_vars

\* ------------------------------------------ two calls of processLead
\* bound: in the two-call specification a vendor sells only on the first
\* MaxFaultTier tiers or on the last tier of its list
SellsInWindow(result) == result.status = "sold" => MayDeviate

\* the variables declared inside processLead and iteratePriceTiers, and the
\* rows and history that belong to this call's lead: what a call suspended
\* at an await keeps for itself
Frame ==
    [pc |-> pc, leadId |-> leadId, vendorName |-> vendorName,
     priceTiers |-> priceTiers, tierIdx |-> tierIdx, attemptOrder |-> attemptOrder,
     attempts |-> attempts, suggested |-> suggested,
     itmediaResult |-> itmediaResult, leadsmarketResult |-> leadsmarketResult,
     batchIdx |-> batchIdx, leadRow |-> leadRow, postAttempts |-> postAttempts,
     response |-> response, calls |-> calls, handed |-> handed,
     statusWrites |-> statusWrites]

\* a call that has not run yet
FreshFrame ==
    [pc |-> "saveLead", leadId |-> 0, vendorName |-> NONE,
     priceTiers |-> <<>>, tierIdx |-> 0, attemptOrder |-> 0,
     attempts |-> <<>>, suggested |-> NoPrice,
     itmediaResult |-> NoIterResult, leadsmarketResult |-> NoIterResult,
     batchIdx |-> 0, leadRow |-> NoLeadRow, postAttempts |-> <<>>,
     response |-> NoResponse, calls |-> <<>>, handed |-> <<>>,
     statusWrites |-> <<>>]

\* variant: attemptOrder is declared at module level, one counter for all calls
ResumedAttemptOrder_ModuleLevel == attemptOrder

\* `let attemptOrder = 1` is local to the iteratePriceTiers call: a resumed
\* call finds its own counter
ResumedAttemptOrder == other.attemptOrder

\* the event loop suspends the running call at its await and resumes the other
Switch ==
    /\ other.pc \notin {"absent", "done"}
    /\ other' = Frame
    /\ pc' = other.pc
    /\ leadId' = other.leadId
    /\ vendorName' = other.vendorName
    /\ priceTiers' = other.priceTiers
    /\ tierIdx' = other.tierIdx
    /\ attemptOrder' = ResumedAttemptOrder
    /\ attempts' = other.attempts
    /\ suggested' = other.suggested
    /\ itmediaResult' = other.itmediaResult
    /\ leadsmarketResult' = other.leadsmarketResult
    /\ batchIdx' = other.batchIdx
    /\ leadRow' = other.leadRow
    /\ postAttempts' = other.postAttempts
    /\ response' = other.response
    /\ calls' = other.calls
    /\ handed' = other.handed
    /\ statusWrites' = other.statusWrites
    /\ UNCHANGED <<faults, form, wire>>

\* one pass of the for-of loop of the running call, under the bound
PairPostTier ==
    /\ PostTier
    /\ SellsInWindow(calls'[Len(calls')].result)

\* two calls for different leads, neither started; the vendors and the
\* database answer without deviation
InitPair ==
    /\ pc = "saveLead"
    /\ leadId = 0
    /\ vendorName = NONE
    /\ priceTiers = <<>>
    /\ tierIdx = 0
    /\ attemptOrder = 0
    /\ attempts = <<>>
    /\ suggested = NoPrice
    /\ itmediaResult = NoIterResult
    /\ leadsmarketResult = NoIterResult
    /\ batchIdx = 0
    /\ leadRow = NoLeadRow
    /\ postAttempts = <<>>
    /\ response = NoResponse
    /\ calls = <<>>
    /\ handed = <<>>
    /\ statusWrites = <<>>
    /\ faults = MaxFaults
    /\ other = FreshFrame
    /\ form = NoForm
    /\ wire = NoWire

NextPair ==
    \/ SaveLead
    \/ PairPostTier
    \/ WriteAttempt
    \/ UpdateStatus
    \/ Switch

SpecPair == InitPair /\ [][NextPair]_vars

\* ------------------------------------------------ POST /api/lead
\* the date `new Date()` gives while the request is handled
Today == [year |-> 2025, month |-> 6, day |-> 15]

\* request bodies, amounts in dollars: a number field is a number or absent
\* (NoPrice); phone, ssn
\* and zip are given by their length (0 is absent or empty); email is absent,
\* without "@" or with it; rest says whether the other eleven required fields
\* are present
Forms ==
    [amount : {NoPrice, 0, 99, 100, 5000, 5001},
     monthlyNetIncome : {NoPrice, 0, 799, 800},
     phone : {0, 10, 11},
     ssn : {9, 8},
     zip : {5, 6},
     email : {"none", "noat", "ok"},
     bMonth : {6}, bDay : {15, 16}, bYear : {2007},
     rest : BOOLEAN]

\* `!leadData[field] && leadData[field] !== 0` for a number field
MissingNumber(n) == ~Truthy(n) /\ n /= 0

\* `actualAge` of validateLeadData
ActualAge(leadData, today) ==
    LET age == today.year - leadData.bYear
        monthDiff == today.month - leadData.bMonth
    IN  IF monthDiff < 0 \/ (monthDiff = 0 /\ today.day < leadData.bDay)
        THEN age - 1
        ELSE age

\* the message of a check, when the check fails
ErrorIf(cond, msg) == IF cond THEN <<msg>> ELSE <<>>

validateLeadData(leadData) ==
    LET errors ==
            ErrorIf(~leadData.rest, "Missing required field")
            \o ErrorIf(leadData.email = "none", "Missing required field: email")
            \o ErrorIf(leadData.phone = 0, "Missing required field: phone")
            \o ErrorIf(MissingNumber(leadData.bMonth), "Missing required field: bMonth")
            \o ErrorIf(MissingNumber(leadData.bDay), "Missing required field: bDay")
            \o ErrorIf(MissingNumber(leadData.bYear), "Missing required field: bYear")
            \o ErrorIf(leadData.zip = 0, "Missing required field: zip")
            \o ErrorIf(MissingNumber(leadData.amount), "Missing required field: amount")
            \o ErrorIf(leadData.ssn = 0, "Missing required field: ssn")
            \o ErrorIf(MissingNumber(leadData.monthlyNetIncome),
                       "Missing required field: monthlyNetIncome")
            \o ErrorIf(Truthy(leadData.amount)
                         /\ (leadData.amount < 100 \/ leadData.amount > 5000),
                       "Amount must be between $100 and $5,000")
            \o ErrorIf(Truthy(leadData.monthlyNetIncome)
                         /\ leadData.monthlyNetIncome < 800,
                       "Monthly income must be at least $800")
            \o ErrorIf(leadData.phone /= 0 /\ leadData.phone /= 10,
                       "Phone number must be 10 digits")
            \o ErrorIf(leadData.ssn /= 0 /\ leadData.ssn /= 9, "SSN must be 9 digits")
            \o ErrorIf(leadData.zip /= 0 /\ leadData.zip /= 5, "ZIP code must be 5 digits")
            \o ErrorIf(leadData.email = "noat", "Invalid email format")
            \o ErrorIf(Truthy(leadData.bMonth) /\ Truthy(leadData.bDay)
                         /\ Truthy(leadData.bYear)
                         /\ ActualAge(leadData, Today) < 18,
                       "Must be 18 years or older")
    IN  [valid |-> Len(errors) = 0, errors |-> errors]

\* the route validates the body, then throws ValidationError or goes on to
\* call processLead with it
PostLead ==
    /\ form.stage = "received"
    /\ LET validation == validateLeadData(form.body)
       IN  form' = [form EXCEPT !.stage = IF validation.valid
                                          THEN "processLead"
                                          ELSE "ValidationError",
                                !.errors = validation.errors]
    /\ UNCHANGED <<pc, leadId, iterVars, itmediaResult, leadsmarketResult, batchIdx,
                   leadRow, postAttempts, response, calls, handed, statusWrites,
                   faults, other, wire>>

\* a request body has arrived at POST /api/lead
InitValidate ==
    /\ pc = "saveLead"
    /\ leadId = 0
    /\ vendorName = NONE
    /\ priceTiers = <<>>
    /\ tierIdx = 0
    /\ attemptOrder = 0
    /\ attempts = <<>>
    /\ suggested = NoPrice
    /\ itmediaResult = NoIterResult
    /\ leadsmarketResult = NoIterResult
    /\ batchIdx = 0
    /\ leadRow = NoLeadRow
    /\ postAttempts = <<>>
    /\ response = NoResponse
    /\ calls = <<>>
    /\ handed = <<>>
    /\ statusWrites = <<>>
    /\ faults = 0
    /\ other = NoRun
    /\ \E body \in Forms : form = [stage |-> "received", body |-> body, errors |-> <<>>]
    /\ wire = NoWire

NextValidate == PostLead

SpecValidate == InitValidate /\ [][NextValidate]_vars

\* ------------------------------------------------ one adapter call
\* the response bodies ITMedia can send
ITMediaBodies ==
    [net : {"ok"}, Status : {"Sold", "Rejected", "Error", "Pending", NONE},
     Price : {NoPrice, 0, 4000}, LeadID : {NONE, "IT-1"}, Redirect : {NONE},
     PriceRejectAmount : {NoPrice, Zero, Empty, NotANumber, 0, 3000},
     Message : {NONE, "text"}]

\* the response bodies LeadsMarket can send
LeadsMarketBodies ==
    [net : {"ok"}, Result : {"1", "2", "4", NONE},
     Price : {NoPrice, Zero, 0, 7500}, LeadID : {NONE, "LM-1"},
     RedirectURL : {NONE}, Message : {NONE, "text"}]

\* the request fails: axios rejects with an error that has a message
FailedRequests(name) ==
    IF name = "ITMedia"
    THEN [net : {"timeout", "status 500"}, Status : {NONE}, Price : {NoPrice},
          LeadID : {NONE}, Redirect : {NONE}, PriceRejectAmount : {NoPrice},
          Message : {NONE}]
    ELSE [net : {"timeout", "status 500"}, Result : {NONE}, Price : {NoPrice},
          LeadID : {NONE}, RedirectURL : {NONE}, Message : {NONE}]

\* everything the awaited request of an adapter can end with
Endings(name) ==
    (IF name = "ITMedia" THEN ITMediaBodies ELSE LeadsMarketBodies)
    \cup FailedRequests(name)

\* the adapter builds its payload and sends the request
AdapterRequest ==
    /\ wire.stage = "called"
    /\ wire' = [wire EXCEPT !.stage = "awaiting", !.requests = wire.requests + 1]
    /\ UNCHANGED <<pc, leadId, iterVars, itmediaResult, leadsmarketResult, batchIdx,
                   leadRow, postAttempts, response, calls, handed, statusWrites,
                   faults, other, form>>

\* variant: a request that failed is sent once more
AdapterReturn_RetriesFailedRequest ==
    /\ wire.stage = "awaiting"
    /\ \E resp \in Endings(wire.vendor) :
        wire' = IF resp.net /= "ok" /\ wire.requests < 2
                THEN [wire EXCEPT !.requests = wire.requests + 1]
                ELSE [wire EXCEPT !.stage = "returned",
                                  !.resp = resp,
                                  !.outcome = postFunction(wire.vendor,
                                                           wire.minPrice, resp)]
    /\ UNCHANGED <<pc, leadId, iterVars, itmediaResult, leadsmarketResult, batchIdx,
                   leadRow, postAttempts, response, calls, handed, statusWrites,
                   faults, other, form>>

\* the request ends with a body or fails, and the adapter returns its outcome
AdapterReturn ==
    /\ wire.stage = "awaiting"
    /\ \E resp \in Endings(wire.vendor) :
        wire' = [wire EXCEPT !.stage = "returned",
                             !.resp = resp,
                             !.outcome = postFunction(wire.vendor, wire.minPrice, resp)]
    /\ UNCHANGED <<pc, leadId, iterVars, itmediaResult, leadsmarketResult, batchIdx,
                   leadRow, postAttempts, response, calls, handed, statusWrites,
                   faults, other, form>>

\* an adapter has been called with the first or the last tier of its list
InitAdapter ==
    /\ pc = "saveLead"
    /\ leadId = 0
    /\ vendorName = NONE
    /\ priceTiers = <<>>
    /\ tierIdx = 0
    /\ attemptOrder = 0
    /\ attempts = <<>>
    /\ suggested = NoPrice
    /\ itmediaResult = NoIterResult
    /\ leadsmarketResult = NoIterResult
    /\ batchIdx = 0
    /\ leadRow = NoLeadRow
    /\ postAttempts = <<>>
    /\ response = NoResponse
    /\ calls = <<>>
    /\ handed = <<>>
    /\ statusWrites = <<>>
    /\ faults = 0
    /\ other = NoRun
    /\ form = NoForm
    /\ \E name \in {"ITMedia", "LeadsMarket"} :
          LET tiers == IF name = "ITMedia" THEN getITMediaPriceTiers
                       ELSE getLeadsMarketPriceTiers
          IN  \E i \in {1, Len(tiers)} :
                 wire = [stage |-> "called", vendor |-> name, minPrice |-> tiers[i],
                         requests |-> 0, resp |-> NONE, outcome |-> NONE]

NextAdapter ==
    \/ AdapterRequest
    \/ AdapterReturn

SpecAdapter == InitAdapter /\ [][NextAdapter]_vars

\* ------------------------------------------------ iteratePriceTiers alone
\* iteratePriceTiers is exported and takes the tier list as an argument:
\* one call of it by any caller, with a list that may be empty.

\* the longest tier list such a call is given
MaxTiers == 3

\* the last n tiers of a list
LastTiers(tiers, n) == SubSeq(tiers, Len(tiers) - n + 1, Len(tiers))

\* the tier lists a call is given: nothing, or the lowest tiers of a vendor
TierLists(name) ==
    LET all == IF name = "ITMedia" THEN getITMediaPriceTiers
               ELSE getLeadsMarketPriceTiers
    IN  {LastTiers(all, n) : n \in 0..MaxTiers}

\* the for-of loop finds no (further) tier and the function returns after
\* the loop; with a non-empty list the last pass of PostTier or PostRetry
\* does this itself
LoopNotEntered ==
    /\ pc = "post"
    /\ tierIdx > Len(priceTiers)
    /\ ReturnIterate(RejectedResult(vendorName, attempts, attemptOrder))
    /\ UNCHANGED auxVars
    /\ UNCHANGED <<leadId, vendorName, priceTiers, tierIdx, attemptOrder,
                   attempts, suggested, leadRow, postAttempts, response,
                   calls, handed, statusWrites, faults>>

\* iteratePriceTiers has been entered: attempts = [], attemptOrder = 1
InitIterate ==
    /\ pc = "post"
    /\ leadId = 0
    /\ vendorName \in {"ITMedia", "LeadsMarket"}
    /\ priceTiers \in TierLists(vendorName)
    /\ tierIdx = 1
    /\ attemptOrder = 1
    /\ attempts = <<>>
    /\ suggested = NoPrice
    /\ itmediaResult = NoIterResult
    /\ leadsmarketResult = NoIterResult
    /\ batchIdx = 0
    /\ leadRow = NoLeadRow
    /\ postAttempts = <<>>
    /\ response = NoResponse
    /\ calls = <<>>
    /\ handed = <<>>
    /\ statusWrites = <<>>
    /\ faults = 0
    /\ other = NoRun
    /\ form = NoForm
    /\ wire = NoWire

NextIterate ==
    \/ PostTier
    \/ PostRetry
    \/ LoopNotEntered

SpecIterate == InitIterate /\ [][NextIterate]_vars

\* ------------------------------------------------------- a run that goes on
\* processLead is one async function: every step of it is the resumption
\* after an awaited promise (the insert, a vendor call, a row write, the
\* status update).  The adapters bound their request with a 30 s timeout and
\* always return, and a settled promise's continuation is always run by the
\* event loop, so a step that can be taken is eventually taken.
SpecLive == Spec /\ WF_vars(Next)

\* ------------------------------------------------------------- claims
Vendors == {"ITMedia", "LeadsMarket"}

\* the adapter calls made for vendor v, in order
VendorCalls(v) == SelectSeq(calls, LAMBDA c : c.vendor = v)

\* what iteratePriceTiers returned for vendor v
IterResult(v) == IF v = "ITMedia" THEN itmediaResult ELSE leadsmarketResult

\* C1: when the ITMedia iteration ends sold, the LeadsMarket adapter is never
\* called in the run, and the run returns status sold, vendor ITMedia and
\* total_attempts equal to the number of ITMedia attempts.
C1_ITMediaSoldSkipsLeadsMarket ==
    itmediaResult.finalStatus = "sold" =>
        /\ VendorCalls("LeadsMarket") = <<>>
        /\ leadsmarketResult = NoIterResult
        /\ pc = "done" =>
            /\ response.status = "sold"
            /\ response.vendor = "ITMedia"
            /\ response.total_attempts = Len(VendorCalls("ITMedia"))
            /\ response.total_attempts = Len(itmediaResult.attempts)

\* C1 witness: a finished run that ITMedia bought on its third tier
C1_Witness ==
    /\ pc = "done"
    /\ itmediaResult.finalStatus = "sold"
    /\ Len(itmediaResult.attempts) = 3
    /\ response.total_attempts = 3

\* C2: when the k-th call on the normal tier sequence is sold, it is the last
\* call for that vendor and iteratePriceTiers returns finalStatus sold with
\* exactly k attempts, totalAttempts = k and the sale details of that call.
C2_SoldOnTierK ==
    \A v \in Vendors :
        \A k \in 1..Len(VendorCalls(v)) :
            LET c == VendorCalls(v)[k]
                r == IterResult(v)
            IN  (c.tier /= 0 /\ c.result.status = "sold") =>
                    /\ Len(VendorCalls(v)) = k
                    /\ c.tier = k
                    /\ r.finalStatus = "sold"
                    /\ Len(r.attempts) = k
                    /\ r.totalAttempts = k
                    /\ r.soldPrice = c.result.price
                    /\ r.vendorLeadId = c.result.vendorLeadId
                    /\ r.redirectUrl = c.result.redirectUrl

\* C2 witness: ITMedia sold on its fourth tier call, with a redirect URL
C2_Witness ==
    /\ Len(VendorCalls("ITMedia")) = 4
    /\ VendorCalls("ITMedia")[4].tier = 4
    /\ VendorCalls("ITMedia")[4].result.status = "sold"
    /\ itmediaResult.redirectUrl /= NONE
    /\ itmediaResult.totalAttempts = 4

\* the counter-offer rule for the tier calls that satisfy Offers: one further
\* call, at the suggested price, recorded as the next attempt, and the end of
\* the iteration; rejected unless that call sold
CounterOfferRule(Offers(_)) ==
    \A v \in Vendors :
        \A i \in 1..Len(VendorCalls(v)) :
            LET vc == VendorCalls(v)
                c == vc[i]
                X == c.result.suggestedPrice
                r == IterResult(v)
            IN  (c.tier /= 0 /\ c.result.status = "price_reject" /\ Offers(X)) =>
                    /\ Len(vc) <= i + 1
                    /\ Len(vc) = i =>
                        /\ pc = "retry"
                        /\ vendorName = v
                        /\ suggested = X
                        /\ r.finalStatus = "none"
                    /\ Len(vc) = i + 1 =>
                        /\ vc[i + 1].tier = 0
                        /\ vc[i + 1].price = X
                        /\ Len(r.attempts) = i + 1
                        /\ r.attempts[i + 1].min_price_sent = X
                        /\ r.attempts[i + 1].status = vc[i + 1].result.status
                        /\ r.finalStatus =
                              IF vc[i + 1].result.status = "sold"
                              THEN "sold" ELSE "rejected"

\* a suggested price is reported at all
AnySuggestedPrice(X) == X /= NoPrice

\* C3 as stated: after price_reject with a suggested price X the iterator makes
\* exactly one further call at X and appends a second attempt; if that retry
\* is not sold it returns rejected without calling any lower tier.
C3_Original == CounterOfferRule(AnySuggestedPrice)

\* C3 amended: after price_reject with a nonzero suggested price X the iterator
\* makes exactly one further call at X and appends a second attempt; if that
\* retry is not sold it returns rejected without calling any lower tier.
C3_RetryOnceThenStop == CounterOfferRule(Truthy)

\* C3 witness: price_reject on tier 1, retry at the suggested price rejected,
\* iteration over after 2 attempts
C3_Witness ==
    /\ Len(VendorCalls("ITMedia")) = 2
    /\ VendorCalls("ITMedia")[1].result.status = "price_reject"
    /\ VendorCalls("ITMedia")[2].tier = 0
    /\ VendorCalls("ITMedia")[2].result.status = "rejected"
    /\ itmediaResult.finalStatus = "rejected"
    /\ Len(itmediaResult.attempts) = 2

\* C4: on every return of iteratePriceTiers, totalAttempts is the number of
\* attempts in the returned list, which is the number of adapter calls made
\* for that vendor.
C4_TotalAttemptsCountsAttempts ==
    \A v \in Vendors :
        IterResult(v).finalStatus /= "none" =>
            /\ Len(IterResult(v).attempts) = Len(VendorCalls(v))
            /\ IterResult(v).totalAttempts = Len(IterResult(v).attempts)

\* C5: over one whole run the attempt_order values of the attempts handed to
\* persistence start at 1 and strictly increase over both vendors' attempts
\* together, so that sorting a lead's attempts by attempt_order gives the
\* sequence in which the vendor calls were made.
C5_AttemptOrderAcrossVendors ==
    /\ Len(handed) <= Len(calls)
    /\ \A i \in 1..Len(handed) :
        /\ handed[i].vendor = calls[i].vendor
        /\ handed[i].min_price_sent = calls[i].price
    /\ handed /= <<>> => handed[1].attempt_order = 1
    /\ \A i, j \in 1..Len(handed) :
        i < j => handed[i].attempt_order < handed[j].attempt_order

\* C6: when ITMedia does not sell and the LeadsMarket iteration ends sold, the
\* run returns status sold, vendor LeadsMarket, the LeadsMarket sale price and
\* total_attempts = ITMedia's attempt count + LeadsMarket's attempt count.
C6_LeadsMarketSoldResponse ==
    (/\ pc = "done"
     /\ itmediaResult.finalStatus = "rejected"
     /\ leadsmarketResult.finalStatus = "sold") =>
        /\ response.status = "sold"
        /\ response.vendor = "LeadsMarket"
        /\ response.price = leadsmarketResult.soldPrice
        /\ response.price = calls[Len(calls)].result.price
        /\ response.total_attempts =
              Len(itmediaResult.attempts) + Len(leadsmarketResult.attempts)

\* C7: when neither iteration ends sold, the status update issued is rejected
\* and the run returns status rejected, total_attempts = the sum of both
\* vendors' attempt counts, and no price, vendor or redirect URL.
C7_RejectedResponse ==
    (/\ pc = "done"
     /\ itmediaResult.finalStatus = "rejected"
     /\ leadsmarketResult.finalStatus = "rejected") =>
        /\ Len(statusWrites) = 1
        /\ statusWrites[1].status = "rejected"
        /\ statusWrites[1].ok => leadRow.final_status = "rejected"
        /\ response.status = "rejected"
        /\ response.price = NoPrice
        /\ response.vendor = NONE
        /\ response.redirect_url = NONE
        /\ response.total_attempts =
              Len(itmediaResult.attempts) + Len(leadsmarketResult.attempts)

\* some vendor call of the run has returned sold
SoldSeen == \E i \in 1..Len(calls) : calls[i].result.status = "sold"

\* C8: once a vendor call has returned sold, no further vendor call is made,
\* no status other than sold is written to the lead, and the run returns sold.
C8_SoldIsFinal ==
    SoldSeen =>
        /\ \A i \in 1..Len(calls) :
            calls[i].result.status = "sold" <=> i = Len(calls)
        /\ pc \in {"batch", "statusSoldA", "statusSoldB", "done"}
        /\ \A i \in 1..Len(statusWrites) : statusWrites[i].status = "sold"
        /\ leadRow.final_status \in {"pending", "sold"}
        /\ pc = "done" => response.status = "sold"

\* C8 witness: LeadsMarket sold after ITMedia did not, and the run has
\* returned with the lead row updated
C8_Witness ==
    /\ SoldSeen
    /\ pc = "done"
    /\ calls[Len(calls)].vendor = "LeadsMarket"
    /\ leadRow.final_status = "sold"
    /\ leadRow.sold_vendor = "LeadsMarket"

\* the state of the run in the orchestrator's state machine
Stage ==
    IF pc = "saveLead" THEN "received"
    ELSE IF pc = "done" THEN response.status
    ELSE IF itmediaResult.finalStatus = "none" THEN "saved"
    ELSE IF leadsmarketResult.finalStatus = "none" THEN "vendorA_attempted"
    ELSE "vendorB_attempted"

\* the moves of that state machine
StageMoves ==
    {<<"received", "saved">>, <<"received", "error">>,
     <<"saved", "vendorA_attempted">>, <<"saved", "error">>,
     <<"vendorA_attempted", "sold">>, <<"vendorA_attempted", "vendorB_attempted">>,
     <<"vendorA_attempted", "error">>,
     <<"vendorB_attempted", "sold">>, <<"vendorB_attempted", "rejected">>,
     <<"vendorB_attempted", "error">>}

\* vendor calls come after the lead insert, LeadsMarket calls after an ITMedia
\* iteration that ended without a sale
CallsInOrder ==
    /\ calls /= <<>> => (leadId /= 0 /\ leadRow.final_status /= "none")
    /\ pc \in {"post", "retry"} => (leadId /= 0 /\ leadRow.final_status /= "none")
    /\ (VendorCalls("LeadsMarket") /= <<>> \/ vendorName = "LeadsMarket") =>
        /\ itmediaResult.finalStatus = "rejected"
        /\ \A i \in 1..Len(calls) :
            calls[i].vendor = "ITMedia" <=> i <= Len(itmediaResult.attempts)

\* C9: a run only moves forward through received, saved, Vendor A attempted,
\* then sold or Vendor B attempted, then sold, rejected or error; no vendor
\* call precedes the successful lead insert, and no LeadsMarket call precedes
\* the end of an ITMedia iteration without a sale.
C9_ForwardOnly ==
    /\ []CallsInOrder
    /\ [][Stage' = Stage \/ <<Stage, Stage'>> \in StageMoves]_vars
    /\ [][Len(calls') > Len(calls) => Stage' \in {Stage, "vendorA_attempted",
                                                  "vendorB_attempted"}]_vars

\* C9 witness: both vendors were called on all their tiers and the run ended
\* rejected
C9_Witness ==
    /\ Stage = "rejected"
    /\ Len(VendorCalls("ITMedia")) = Len(getITMediaPriceTiers)
    /\ Len(VendorCalls("LeadsMarket")) = Len(getLeadsMarketPriceTiers)

\* C10: when the lead insert fails, the run makes no vendor call, writes no
\* attempt row and no status update, and returns status error with a null
\* lead id.
C10_InsertFailure ==
    (pc /= "saveLead" /\ leadRow = NoLeadRow) =>
        /\ pc = "done"
        /\ calls = <<>>
        /\ handed = <<>>
        /\ postAttempts = <<>>
        /\ statusWrites = <<>>
        /\ response.status = "error"
        /\ response.lead_id = 0

\* C10 witness: the run has returned after a failed lead insert
C10_Witness ==
    /\ pc = "done"
    /\ leadRow = NoLeadRow
    /\ faults = 1
    /\ response.status = "error"

\* an exception left the post function in this run
Thrown == calls /= <<>> /\ calls[Len(calls)].result.status = "threw"

\* C11: an exception raised in processLead after the lead was saved is caught
\* at the top level: one status update to error is attempted for that lead and
\* processLead returns status error with a message, whether or not that
\* update succeeds; processLead never ends with anything but a returned result.
C11_CaughtAtTopLevel ==
    /\ pc = "done" => response.status \in {"sold", "rejected", "error"}
    /\ (Thrown /\ leadId /= 0) =>
        \/ pc = "statusError" /\ statusWrites = <<>> /\ response = NoResponse
        \/ /\ pc = "done"
           /\ Len(statusWrites) = 1
           /\ statusWrites[1].lead_id = leadId
           /\ statusWrites[1].status = "error"
           /\ leadRow.final_status = IF statusWrites[1].ok THEN "error" ELSE "pending"
           /\ response.status = "error"
           /\ response.lead_id = leadId
           /\ response.message /= NONE

\* the post function threw on a later tier and the status update to error failed
C11_Witness ==
    /\ pc = "done"
    /\ Thrown
    /\ Len(calls) > 1
    /\ leadId /= 0
    /\ statusWrites /= <<>>
    /\ ~statusWrites[1].ok
    /\ response.status = "error"

\* the attempts iteratePriceTiers counts for vendor v, read off the calls cs
\* of a run: every call, less the retry when the retry did not sell
CountedIn(cs, v) ==
    LET vc == SelectSeq(cs, LAMBDA c : c.vendor = v)
    IN  IF vc /= <<>> /\ vc[Len(vc)].tier = 0 /\ vc[Len(vc)].result.status /= "sold"
        THEN Len(vc) - 1
        ELSE Len(vc)

\* the result the vendors' answers alone lead to, for a run that made calls cs
OutcomeOf(cs) ==
    LET last == cs[Len(cs)]
        total == CountedIn(cs, "ITMedia") + CountedIn(cs, "LeadsMarket")
    IN  IF last.result.status = "sold"
        THEN [status |-> "sold", vendor |-> last.vendor, price |-> last.result.price,
              total_attempts |-> total]
        ELSE [status |-> "rejected", vendor |-> NONE, price |-> NoPrice,
              total_attempts |-> total]

OutcomeOfCalls == OutcomeOf(calls)

\* the attempts the finished batches were given
BatchedAttempts ==
    IF pc = "post" /\ vendorName = "ITMedia" THEN <<>>
    ELSE IF pc = "batch" /\ vendorName = "ITMedia"
    THEN SubSeq(itmediaResult.attempts, 1, batchIdx - 1)
    ELSE IF pc \in {"post", "retry"} \/ pc = "statusSoldA"
    THEN itmediaResult.attempts
    ELSE IF pc = "batch"
    THEN itmediaResult.attempts \o SubSeq(leadsmarketResult.attempts, 1, batchIdx - 1)
    ELSE itmediaResult.attempts \o leadsmarketResult.attempts

\* the attempt that a row of post_attempts was written from
AttemptOfRow(row) == IterResult(row.vendor).attempts[row.attempt_order]

\* C12: a failed attempt-row write changes nothing else: every attempt of a
\* batch is still passed to savePostAttempt, the rows of the writes that
\* succeeded are stored in order (looked at after each batch), LeadsMarket is
\* still tried when ITMedia did not sell, and the returned status, vendor,
\* price and total_attempts are those the vendors' answers alone lead to.
C12_AttemptWriteFailureHarmless ==
    leadId /= 0 =>
        /\ pc \notin {"retry", "saveLead"} /\ ~(pc = "post" /\ vendorName = "ITMedia")
              => handed = BatchedAttempts
        /\ Len(handed) - Len(postAttempts) <= faults
        /\ pc \in {"done", "post"} => \A i \in 1..Len(postAttempts) :
              /\ postAttempts[i].attempt_order \in
                    1..Len(IterResult(postAttempts[i].vendor).attempts)
              /\ postAttempts[i] = PostAttemptRow(leadId, AttemptOfRow(postAttempts[i]))
              /\ i > 1 =>
                    \/ /\ postAttempts[i - 1].vendor = postAttempts[i].vendor
                       /\ postAttempts[i - 1].attempt_order < postAttempts[i].attempt_order
                    \/ /\ postAttempts[i - 1].vendor = "ITMedia"
                       /\ postAttempts[i].vendor = "LeadsMarket"
        /\ pc = "done" =>
              /\ response.status = OutcomeOfCalls.status
              /\ response.vendor = OutcomeOfCalls.vendor
              /\ response.price = OutcomeOfCalls.price
              /\ response.total_attempts = OutcomeOfCalls.total_attempts
              /\ response.status = "rejected" => VendorCalls("LeadsMarket") /= <<>>

\* the first attempt write of the ITMedia batch failed, the rest of the batch
\* was written, and the lead was then sold to LeadsMarket
C12_Witness ==
    /\ pc = "done"
    /\ response.status = "sold"
    /\ response.vendor = "LeadsMarket"
    /\ Len(handed) > Len(postAttempts)
    /\ postAttempts[1].vendor = "ITMedia"
    /\ postAttempts[1].attempt_order = 2
    /\ Len(SelectSeq(postAttempts, LAMBDA r : r.vendor = "ITMedia")) = Len(itmediaResult.attempts) - 1

\* the tier list iteratePriceTiers is given for vendor v
TiersOf(v) == IF v = "ITMedia" THEN getITMediaPriceTiers ELSE getLeadsMarketPriceTiers

\* the iteratePriceTiers call for vendor v has returned
Returned(v) == IterResult(v).finalStatus /= "none"

\* the attempts list of the iteratePriceTiers call for vendor v, returned or
\* still being filled
AttemptsOf(v) ==
    IF Returned(v) THEN IterResult(v).attempts
    ELSE IF vendorName = v THEN attempts
    ELSE <<>>

\* the iteratePriceTiers call for vendor v has just returned, or the run is over
AtReturn(v) ==
    \/ pc = "batch" /\ batchIdx = 1 /\ vendorName = v
    \/ pc = "done"

\* C13: a rejected or error outcome on a tier (a timed-out call is an error
\* outcome) is followed by the call on the next lower tier; every adapter call
\* has exactly one attempt, in call order, carrying the call's price and
\* status; an iteration that returns before the last tier was called ended on
\* a sold outcome or on a counter-offer retry. Inside the loop the latest
\* call is looked at; the whole list is looked at when iteratePriceTiers has
\* returned.
C13_RejectedOrErrorContinues ==
    /\ (pc = "post" /\ attempts /= <<>>) =>
          LET c == calls[Len(calls)]
              a == attempts[Len(attempts)]
          IN  /\ c.vendor = vendorName
              /\ c.tier = tierIdx - 1
              /\ tierIdx <= Len(priceTiers)
              /\ Len(attempts) = tierIdx - 1
              /\ a.status = c.result.status
              /\ a.min_price_sent = c.price
    /\ \A v \in Vendors :
          AtReturn(v) =>
              LET vc == VendorCalls(v)
                  log == AttemptsOf(v)
              IN  /\ Len(log) = Len(vc)
                  /\ \A i \in 1..Len(vc) :
                        /\ log[i].status = vc[i].result.status
                        /\ log[i].min_price_sent = vc[i].price
                        /\ log[i].error_message = vc[i].result.message
                        /\ (/\ vc[i].tier /= 0
                            /\ vc[i].result.status \in {"rejected", "error"}
                            /\ vc[i].tier < Len(TiersOf(v)))
                           => /\ i < Len(vc)
                              /\ vc[i + 1].tier = vc[i].tier + 1
                              /\ vc[i + 1].price = TiersOf(v)[vc[i].tier + 1]
                  /\ Returned(v) =>
                        \/ vc[Len(vc)].result.status = "sold"
                        \/ vc[Len(vc)].tier = 0
                        \/ vc[Len(vc)].tier = Len(TiersOf(v))

\* ITMedia timed out on tier 1 and every tier of both vendors was called
C13_Witness ==
    /\ pc = "done"
    /\ response.status = "rejected"
    /\ Len(calls) = Len(getITMediaPriceTiers) + Len(getLeadsMarketPriceTiers)
    /\ calls[1].result.status = "error"
    /\ calls[1].result.message = "timeout"
    /\ calls[2].tier = 2
    /\ itmediaResult.attempts[1].status = "error"

\* the writes of a finished run whose lead insert succeeded
WritesOfRun ==
    (pc = "done" /\ leadId /= 0) =>
        /\ leadRow /= NoLeadRow
        /\ Len(statusWrites) = 1
        /\ statusWrites[1].lead_id = leadId
        /\ statusWrites[1].status \in {"sold", "rejected", "error"}
        /\ Len(handed) = Len(calls)
        /\ \A i \in 1..Len(handed) :
              /\ handed[i].vendor = calls[i].vendor
              /\ handed[i].min_price_sent = calls[i].price
        /\ handed = itmediaResult.attempts \o leadsmarketResult.attempts
        /\ leadsmarketResult.attempts /= <<>> => itmediaResult.finalStatus = "rejected"

\* C14: a run whose lead insert succeeded inserts one lead row, issues exactly
\* one status update (to sold, rejected or error) and passes one attempt per
\* vendor call to savePostAttempt, the ITMedia batch first and the
\* LeadsMarket batch, if any, after it; the lead row changes at most twice,
\* once by the insert and once by the status update.
C14_WritesPerRun ==
    /\ [](WritesOfRun /\ (pc /= "done" => statusWrites = <<>>))
    /\ [][leadRow' /= leadRow =>
            \/ leadRow = NoLeadRow /\ leadRow' = InsertedLeadRow /\ pc = "saveLead"
            \/ leadRow /= NoLeadRow /\ statusWrites = <<>> /\ Len(statusWrites') = 1]_vars

\* both vendors were tried and both batches were written
C14_Witness ==
    /\ pc = "done"
    /\ leadId /= 0
    /\ Len(statusWrites) = 1
    /\ statusWrites[1].ok
    /\ leadRow.final_status = "sold"
    /\ leadsmarketResult.attempts /= <<>>
    /\ Len(postAttempts) = Len(calls)

\* the counter-offer retries made for vendor v
RetryCalls(v) == SelectSeq(VendorCalls(v), LAMBDA c : c.tier = 0)

\* C15: one iteratePriceTiers run makes at most one counter-offer retry; a
\* retry answered by price_reject with a further suggested price is the last
\* call for that vendor, and the iteration returns finalStatus rejected.
C15_AtMostOneRetry ==
    \A v \in Vendors :
        LET vc == VendorCalls(v)
        IN  /\ Len(RetryCalls(v)) <= 1
            /\ \A i \in 1..Len(vc) :
                  (vc[i].tier = 0 /\ vc[i].result.status /= "sold") =>
                      /\ i = Len(vc)
                      /\ ~(pc \in {"post", "retry"} /\ vendorName = v)
                      /\ Returned(v)
                      /\ IterResult(v).finalStatus = "rejected"
                      /\ Len(IterResult(v).attempts) = i

\* the retry was answered by price_reject with a further suggested price, and
\* the run went on to LeadsMarket
C15_Witness ==
    /\ \E i \in 1..Len(calls) :
          /\ calls[i].vendor = "ITMedia"
          /\ calls[i].tier = 0
          /\ ShouldRetry(calls[i].result)
    /\ itmediaResult.finalStatus = "rejected"
    /\ VendorCalls("LeadsMarket") /= <<>>

\* every answer vendor v has given so far was a plain rejection
AlwaysRejected(v) ==
    LET vc == VendorCalls(v)
    IN  \A i \in 1..Len(vc) : vc[i].result.status = "rejected"

\* C16: when the adapter answers rejected to every price, the calls made for
\* the vendor are the tiers of the list in list order, none skipped; once
\* the iteration has returned there are exactly N calls and N attempts for a
\* list of N tiers, the attempts carry the tier prices in strictly descending
\* order, and finalStatus is rejected.
C16_AllRejectedWalksAllTiers ==
    \A v \in Vendors :
        AlwaysRejected(v) =>
            LET vc == VendorCalls(v)
                N == Len(TiersOf(v))
                log == AttemptsOf(v)
            IN  /\ Len(vc) <= N
                /\ \A i \in 1..Len(vc) :
                      /\ vc[i].tier = i
                      /\ vc[i].price = TiersOf(v)[i]
                /\ Returned(v) =>
                      /\ Len(vc) = N
                      /\ Len(log) = N
                      /\ \A i \in 1..N : log[i].min_price_sent = TiersOf(v)[i]
                      /\ \A i \in 1..(N - 1) :
                            log[i].min_price_sent > log[i + 1].min_price_sent
                      /\ IterResult(v).finalStatus = "rejected"

\* both vendors rejected every tier
C16_Witness ==
    /\ pc = "done"
    /\ AlwaysRejected("ITMedia")
    /\ AlwaysRejected("LeadsMarket")
    /\ Len(itmediaResult.attempts) = Len(getITMediaPriceTiers)
    /\ Len(leadsmarketResult.attempts) = Len(getLeadsMarketPriceTiers)
    /\ response.status = "rejected"

StrictlyDescending(s) == \A i \in 1..(Len(s) - 1) : s[i] > s[i + 1]

\* a price LeadsMarket accepts: a whole number of dollars from 0 to 230
InLeadsMarketDomain(p) == p % 100 = 0 /\ p >= 0 /\ p <= 23000

\* a price ITMedia accepts: a decimal amount that is not negative
InITMediaDomain(p) == p >= 0

\* C17: the tier list derived for each vendor is strictly descending, so no
\* two entries are equal, and lies inside the vendor's price domain: whole
\* dollars from 0 to 230 for LeadsMarket; the list a vendor's iteration walks
\* is that derived list, and every tier price sent (looked at when the call
\* has just been made) lies in the domain too.
C17_DerivedTiersInDomain ==
    /\ StrictlyDescending(getITMediaPriceTiers)
    /\ \A i \in 1..Len(getITMediaPriceTiers) : InITMediaDomain(getITMediaPriceTiers[i])
    /\ StrictlyDescending(getLeadsMarketPriceTiers)
    /\ \A i \in 1..Len(getLeadsMarketPriceTiers) :
          InLeadsMarketDomain(getLeadsMarketPriceTiers[i])
    /\ vendorName \in Vendors => priceTiers = TiersOf(vendorName)
    /\ calls /= <<>> =>
          LET last == calls[Len(calls)]
          IN  last.tier /= 0 =>
                  IF last.vendor = "LeadsMarket"
                  THEN InLeadsMarketDomain(last.price)
                  ELSE InITMediaDomain(last.price)

\* both lists were walked to their last tier
C17_Witness ==
    /\ \E i \in 1..Len(calls) :
          calls[i].vendor = "ITMedia" /\ calls[i].tier = Len(getITMediaPriceTiers)
    /\ \E i \in 1..Len(calls) :
          /\ calls[i].vendor = "LeadsMarket"
          /\ calls[i].tier = Len(getLeadsMarketPriceTiers)
          /\ calls[i].price = 0

\* the canonical tiers after the map callback, before the filter
MappedLeadsMarketTiers ==
    [i \in 1..Len(PRICE_TIERS) |-> LeadsMarketTier(PRICE_TIERS[i])]

\* C18: for the canonical tiers 250, 150, 80, 60, 40, 20, 10, 5, 2, 1, 0.5
\* getLeadsMarketPriceTiers returns 230, 150, 80, 60, 40, 20, 10, 5, 2, 1, 0:
\* the list is the same before and after the duplicates are removed, position
\* by position, and no derived value exceeds the canonical tier at its position.
C18_LeadsMarketTierList ==
    /\ PRICE_TIERS = <<25000, 15000, 8000, 6000, 4000, 2000, 1000, 500, 200, 100, 50>>
    /\ getLeadsMarketPriceTiers =
          <<23000, 15000, 8000, 6000, 4000, 2000, 1000, 500, 200, 100, 0>>
    /\ MappedLeadsMarketTiers = getLeadsMarketPriceTiers
    /\ \A i \in 1..Len(getLeadsMarketPriceTiers) :
          getLeadsMarketPriceTiers[i] <= PRICE_TIERS[i]
    /\ vendorName = "LeadsMarket" =>
          priceTiers = <<23000, 15000, 8000, 6000, 4000, 2000, 1000, 500, 200, 100, 0>>

\* the LeadsMarket iteration stands at the eleventh tier of its list
C18_Witness ==
    /\ pc = "post"
    /\ vendorName = "LeadsMarket"
    /\ tierIdx = 11
    /\ priceTiers[tierIdx] = 0
    /\ priceTiers[1] = 23000

\* the calls a frame's run made for vendor v
CallsOf(f, v) == SelectSeq(f.calls, LAMBDA c : c.vendor = v)

\* what iteratePriceTiers returned for vendor v in a frame's run
ResultOf(f, v) == IF v = "ITMedia" THEN f.itmediaResult ELSE f.leadsmarketResult

\* the attempts list for vendor v in a frame's run, returned or being filled
LogOf(f, v) ==
    IF ResultOf(f, v).finalStatus /= "none" THEN ResultOf(f, v).attempts
    ELSE IF f.vendorName = v THEN f.attempts
    ELSE <<>>

\* everything a run holds is what its own vendor calls and its own lead id
\* produce, as in a run on its own
OwnValuesOnly(f) ==
    /\ f.priceTiers = (IF f.vendorName = NONE THEN <<>> ELSE TiersOf(f.vendorName))
    /\ \A v \in Vendors :
          LET vc == CallsOf(f, v)
              log == LogOf(f, v)
              res == ResultOf(f, v)
          IN  /\ Len(log) = Len(vc)
              /\ \A i \in 1..Len(vc) :
                    /\ vc[i].price = TiersOf(v)[i]
                    /\ log[i] = Attempt(v, vc[i].price, vc[i].result, i)
              /\ res.finalStatus /= "none" =>
                    /\ res.totalAttempts = CountedIn(f.calls, v)
                    /\ res.finalStatus = "sold" <=> vc[Len(vc)].result.status = "sold"
                    /\ res.soldPrice = vc[Len(vc)].result.price
    /\ f.pc = "post" =>
          /\ f.attemptOrder = Len(f.attempts) + 1
          /\ f.tierIdx = Len(f.attempts) + 1
    /\ Len(f.postAttempts) = Len(f.handed)
    /\ \A i \in 1..Len(f.handed) :
          /\ f.postAttempts[i] = PostAttemptRow(f.leadId, f.handed[i])
          /\ f.handed[i] = LogOf(f, f.handed[i].vendor)[f.handed[i].attempt_order]
    /\ f.pc = "done" =>
          /\ f.response.lead_id = f.leadId
          /\ f.response.status = OutcomeOf(f.calls).status
          /\ f.response.vendor = OutcomeOf(f.calls).vendor
          /\ f.response.price = OutcomeOf(f.calls).price
          /\ f.response.total_attempts = OutcomeOf(f.calls).total_attempts
          /\ f.leadRow.final_status = f.response.status

\* C19: with two processLead calls for different leads interleaved at their
\* awaits, each call's tier list, counters, attempts list, rows and returned
\* result are those its own vendor calls produce: the same as in a run alone
\* against the same vendor answers.
C19_InterleavedRunsIndependent ==
    /\ OwnValuesOnly(Frame)
    /\ other.pc /= "absent" =>
          /\ OwnValuesOnly(other)
          /\ leadId /= 0 => leadId /= other.leadId

\* both calls are suspended in the middle of an iteration, at different
\* vendors and with different counters
C19_Witness ==
    /\ pc = "post"
    /\ other.pc = "post"
    /\ vendorName = "LeadsMarket"
    /\ other.vendorName = "ITMedia"
    /\ attemptOrder = 3
    /\ other.attemptOrder = 7
    /\ leadId = 8
    /\ other.leadId = 7

\* C20: a body for which validateLeadData returns valid = true has its
\* amount in [100, 5000] and its monthly net income at 800 or more, so the
\* /api/lead route hands no lead outside these ranges to processLead.
C20_ValidMeansInRange ==
    form.stage = "processLead" =>
        /\ validateLeadData(form.body).valid
        /\ form.body.amount >= 100
        /\ form.body.amount <= 5000
        /\ form.body.monthlyNetIncome >= 800

\* an adapter call of vendor v has returned after the request got a body
Answered(v) ==
    /\ wire.stage = "returned"
    /\ wire.vendor = v
    /\ wire.resp.net = "ok"

ITMediaMapping(offered) ==
    /\ wire.outcome.status =
           IF wire.resp.Status = "Sold" THEN "sold"
           ELSE IF wire.resp.Status = "Rejected" /\ offered THEN "price_reject"
           ELSE IF wire.resp.Status = "Rejected" THEN "rejected"
           ELSE "error"
    /\ wire.outcome.status = "price_reject" =>
           wire.outcome.suggestedPrice = parseFloat(wire.resp.PriceRejectAmount)

\* C22 as stated: Status Rejected with a PriceRejectAmount field in the body
\* gives price_reject, whatever the field holds.
C22_Original ==
    Answered("ITMedia") => ITMediaMapping(wire.resp.PriceRejectAmount /= NoPrice)

\* C22: postToITMedia returns sold for Status Sold, price_reject carrying the
\* parsed PriceRejectAmount for Status Rejected with a non-empty, nonzero
\* PriceRejectAmount, rejected for Status Rejected with no, an empty or a
\* numeric zero PriceRejectAmount, and error for Status Error and every
\* other Status.
C22_ITMediaStatusMapping ==
    Answered("ITMedia") => ITMediaMapping(WireTruthy(wire.resp.PriceRejectAmount))

\* ITMedia rejected with a counter-offer of 30 dollars
C22_Witness ==
    /\ Answered("ITMedia")
    /\ wire.resp.Status = "Rejected"
    /\ wire.resp.PriceRejectAmount = 3000
    /\ wire.outcome.status = "price_reject"
    /\ wire.outcome.suggestedPrice = 3000


\* C23: one adapter call issues at most one network request, and when that
\* request fails or times out the call returns an outcome with status error
\* and the failure's message, without a second request and without throwing.
C23_OneRequestFailureIsError ==
    /\ wire.stage /= "none" => wire.requests <= 1
    /\ (wire.stage = "returned" /\ wire.resp.net /= "ok") =>
           /\ wire.requests = 1
           /\ wire.outcome.status = "error"
           /\ wire.outcome.message = wire.resp.net
           /\ wire.outcome.price = NoPrice

\* a LeadsMarket request timed out and the call returned
C23_Witness ==
    /\ wire.stage = "returned"
    /\ wire.vendor = "LeadsMarket"
    /\ wire.resp.net = "timeout"
    /\ wire.outcome.status = "error"
    /\ wire.outcome.message = "timeout"
    /\ wire.requests = 1


\* iteratePriceTiers has returned to its caller
IterateReturned == pc = "batch"

\* C24: iteratePriceTiers called with an empty tier list makes no adapter
\* call and returns finalStatus rejected with an empty attempts list and
\* totalAttempts = 0.
C24_EmptyTierList ==
    priceTiers = <<>> =>
        /\ calls = <<>>
        /\ pc \in {"post", "batch"}
        /\ IterateReturned =>
               /\ BatchResult.finalStatus = "rejected"
               /\ BatchResult.attempts = <<>>
               /\ BatchResult.totalAttempts = 0
               /\ BatchResult.soldPrice = NoPrice

\* a call with an empty list has returned
C24_Witness ==
    /\ vendorName = "LeadsMarket"
    /\ priceTiers = <<>>
    /\ IterateReturned
    /\ BatchResult.finalStatus = "rejected"
    /\ calls = <<>>


\* the attempts of a list are numbered 1, 2, 3, ... in list order
NumberedFromOne(as) == \A i \in 1..Len(as) : as[i].attempt_order = i

\* C25: within one iteratePriceTiers run the i-th attempt of the list has
\* attempt_order = i on every path, the counter-offer retry attempt included,
\* and the numbering starts again at 1 for every vendor.
C25_AttemptOrderIsPosition ==
    /\ attempts /= <<>> =>
           attempts[Len(attempts)].attempt_order = Len(attempts)
    /\ \A v \in {"ITMedia", "LeadsMarket"} :
           (AtReturn(v) /\ Returned(v)) => NumberedFromOne(IterResult(v).attempts)

\* ITMedia made a counter-offer and the retry was refused; LeadsMarket was
\* then tried from its first tier
C25_Witness ==
    /\ pc = "done"
    /\ Len(itmediaResult.attempts) = 2
    /\ itmediaResult.attempts[1].status = "price_reject"
    /\ itmediaResult.attempts[2].attempt_order = 2
    /\ Len(leadsmarketResult.attempts) >= 2
    /\ leadsmarketResult.attempts[1].attempt_order = 1


\* the latest vendor call
LastCall == calls[Len(calls)]

\* the outcome is a price_reject whose suggested price is 0 or no number
EmptyCounterOffer(result) ==
    result.status = "price_reject" /\ ~Truthy(result.suggestedPrice)

\* C26: after a price_reject with a suggested price of 0 or with no suggested
\* price, iteratePriceTiers makes no retry call: the attempt is recorded with
\* status price_reject and the next call, if the list has a lower tier, is
\* the call on that tier, as after a rejected outcome (when the call was
\* itself the retry, the iteration ends, as after a rejected retry).
C26_EmptyCounterOfferNotRetried ==
    /\ (calls /= <<>> /\ EmptyCounterOffer(LastCall.result)) =>
           /\ pc /= "retry"
           /\ AttemptsOf("ITMedia") /= <<>>
           /\ LET as == AttemptsOf("ITMedia")
              IN  /\ as[Len(as)].status = "price_reject"
                  /\ as[Len(as)].min_price_sent = LastCall.price
           /\ IF LastCall.tier \in 1..(Len(getITMediaPriceTiers) - 1)
              THEN pc = "post" /\ tierIdx = LastCall.tier + 1
              ELSE itmediaResult.finalStatus = "rejected"
    /\ (Len(calls) >= 2 /\ EmptyCounterOffer(calls[Len(calls) - 1].result)) =>
           IF LastCall.vendor = "ITMedia"
           THEN LastCall.tier = calls[Len(calls) - 1].tier + 1
           ELSE calls[Len(calls) - 1].tier \in {0, Len(getITMediaPriceTiers)}

\* ITMedia answered its first tier with a counter-offer that is no number,
\* and the second tier was then called
C26_Witness ==
    /\ Len(calls) = 2
    /\ calls[1].result.status = "price_reject"
    /\ calls[1].result.suggestedPrice = NoPrice
    /\ calls[2].vendor = "ITMedia"
    /\ calls[2].tier = 2
    /\ attempts[1].status = "price_reject"


\* no element of the sequence rows belongs to vendor v
NoneOf(rows, v) == \A i \in 1..Len(rows) : rows[i].vendor /= v

\* C27: when the post function throws, iteratePriceTiers does not return: the
\* exception reaches the catch of processLead, no attempt of that vendor is
\* handed to persistence or stored, one status update to error is made (the
\* lead's status is error when that write succeeds) and the run returns
\* status error.
C27_PostFunctionThrows ==
    Thrown =>
        /\ pc \in {"statusError", "done"}
        /\ IterResult(LastCall.vendor).finalStatus = "none"
        /\ NoneOf(handed, LastCall.vendor)
        /\ NoneOf(postAttempts, LastCall.vendor)
        /\ pc = "done" =>
               /\ response = ErrorResponse(leadId)
               /\ Len(statusWrites) = 1
               /\ statusWrites[1].status = "error"
               /\ statusWrites[1].ok => leadRow.final_status = "error"

\* LeadsMarket threw on its second tier after the ITMedia attempts were
\* stored; the lead ended with status error
C27_Witness ==
    /\ pc = "done"
    /\ Thrown
    /\ LastCall.vendor = "LeadsMarket"
    /\ LastCall.tier = 2
    /\ Len(attempts) = 1
    /\ postAttempts /= <<>>
    /\ NoneOf(postAttempts, "LeadsMarket")
    /\ leadRow.final_status = "error"
    /\ response.status = "error"


\* the number of calls made to vendor v so far
CallCount(v) == Cardinality({i \in 1..Len(calls) : calls[i].vendor = v})

\* C28: every processLead run ends, after at most 23 vendor calls: at most
\* 12 to ITMedia (11 tiers and at most one counter-offer retry) and at most
\* 11 to LeadsMarket, which is never called for a retry.
C28_TerminatesWithinCalls ==
    /\ <>(pc = "done")
    /\ [](/\ Len(calls) <= 23
          /\ pc = "done" => /\ CallCount("ITMedia") <= 12
                            /\ CallCount("LeadsMarket") <= 11
          /\ (calls /= <<>> /\ LastCall.vendor = "LeadsMarket") =>
                 /\ LastCall.tier /= 0
                 /\ LastCall.result.status /= "price_reject")

\* a run that ended after 23 vendor calls
C28_Witness ==
    /\ pc = "done"
    /\ Len(calls) = 23
    /\ CallCount("ITMedia") = 12
    /\ CallCount("LeadsMarket") = 11


\* the result processLead determined from the two iterations
DeterminedResponse ==
    IF ITMediaSold(itmediaResult)
    THEN ITMediaSoldResponse(leadId, itmediaResult)
    ELSE IF LeadsMarketSold(leadsmarketResult)
    THEN LeadsMarketSoldResponse(leadId, itmediaResult, leadsmarketResult)
    ELSE RejectedResponse(leadId, itmediaResult, leadsmarketResult)

\* C29: when the final status update fails, updateLeadStatus swallows the
\* failure: processLead returns the sold or rejected result it determined,
\* no second status update is made, and the lead's final_status stays at its
\* inserted value pending.
C29_StatusWriteFailureSwallowed ==
    (statusWrites /= <<>> /\ ~statusWrites[Len(statusWrites)].ok) =>
        /\ pc = "done"
        /\ Len(statusWrites) = 1
        /\ leadRow = InsertedLeadRow
        /\ leadRow.final_status = "pending"
        /\ response.status \in {"sold", "rejected"}
        /\ response.status = statusWrites[1].status
        /\ response = DeterminedResponse

\* LeadsMarket bought the lead and the update of its row failed
C29_Witness ==
    /\ pc = "done"
    /\ Len(statusWrites) = 1
    /\ ~statusWrites[1].ok
    /\ statusWrites[1].status = "sold"
    /\ response.status = "sold"
    /\ response.vendor = "LeadsMarket"
    /\ leadRow.final_status = "pending"


\* C30: every attempt recorded with status sold carries, as its price, the
\* soldPrice that iteratePriceTiers returns for the run, for every sale price
\* the adapter can report, a sale at price 0 included.
C30_SoldAttemptPriceIsSoldPrice ==
    \A v \in {"ITMedia", "LeadsMarket"} :
        (Returned(v) /\ IterResult(v).finalStatus = "sold") =>
            LET as == IterResult(v).attempts
            IN  /\ as[Len(as)].status = "sold"
                /\ as[Len(as)].price = IterResult(v).soldPrice

====
